---- MODULE Spec2Model ----
(***************************************************************************)
(* Model of the LiveCC evaluation scripts:                                 *)
(*   evaluation/livesports3kcc/distributed_generate_livecc.py              *)
(*     (sharded generation, per-example files, JSONL aggregation)          *)
(*   evaluation/mvbench/check_video_exists.py                              *)
(*     (parallel per-line filter)                                          *)
(*                                                                         *)
(* Text is modelled as a sequence of one-character strings, so that        *)
(* str.replace, str.strip, str.join and the substring test act on          *)
(* characters.  The fixed phrases of the instruct prompt are kept as       *)
(* single elements of such a sequence.  A JSON document is a sequence of   *)
(* lexical tokens; json.dump(s) produces it and json.load(s) parses it.    *)
(***************************************************************************)
EXTENDS Integers, Sequences, FiniteSets, TLC

VARIABLES
    \* ---- distributed_generate_livecc.py ----
    n,               \* len(ds)
    num_workers,     \* args.num_workers
    output_dir,      \* whether the directory args.output_dir exists
    save_dir,        \* the shard directory: [exists, files], files: idx -> text
    jsonl,           \* save_dir + '.jsonl': sequence of lines
    pc_main,         \* position of the driver (__main__)
    pending,         \* names returned by os.listdir still to be read
    wpc,             \* position of each worker process
    wpos,            \* each worker's position in its for loop (1-based)
    idxs_on_device,  \* each worker's shard
    overall_cc,      \* each worker's concatenated caption, until it is written
    \* history of the current run (not program state)
    run,             \* number of the current run of the script
    crashes,         \* worker crashes so far
    pre_dir,         \* save_dir as it was when the current run started
    agg_dir,         \* save_dir as it was when aggregation listed it
    inferred,        \* indices for which inference was invoked in this run
    writes,          \* <<device_id, idx>> of every open(save_path, 'w') of this run
    rewrites,        \* indices opened for writing more than once in this run
    \* ---- check_video_exists.py ----
    lines,           \* lines of mvbench.jsonl
    results,         \* per-line outcome of check in the thread pool
    f_pc,            \* position of the filter script
    existed_lines,   \* the filtered list
    out_file,        \* mvbench_video_existed.jsonl: [exists, lines]
    \* ---- pure text functions ----
    t_pc,            \* which function the text harness applied
    t_responses,     \* input: fragments returned by inference
    t_record,        \* input: dataset record (title, preasr)
    t_simple,        \* input: simple_ctx
    t_cc,            \* output of the fragment concatenation
    t_prompt         \* output of the prompt construction

pipe_vars == <<n, num_workers, output_dir, save_dir, jsonl, pc_main, pending,
               wpc, wpos, idxs_on_device, overall_cc,
               run, crashes, pre_dir, agg_dir, inferred, writes, rewrites>>
filter_vars == <<lines, results, f_pc, existed_lines, out_file>>
text_vars == <<t_pc, t_responses, t_record, t_simple, t_cc, t_prompt>>
vars == <<pipe_vars, filter_vars, text_vars>>

-----------------------------------------------------------------------------
(* Bounds of the model *)
MaxN == 3            \* largest dataset size
MaxWorkers == 2      \* largest num_workers
MaxRuns == 2         \* runs of the script in one behaviour
MaxCrashes == 1      \* worker crashes in one behaviour
MaxCut == 1          \* tokens on disk when a write is interrupted
MaxLines == 3        \* lines of mvbench.jsonl
MaxFrags == 3        \* fragments returned by one inference call
MaxParts == 2        \* pieces a title or a previous commentary is built from
MaxShardN == 6       \* largest dataset size when the sharding is checked alone
MaxShardW == 4       \* largest num_workers when the sharding is checked alone

-----------------------------------------------------------------------------
(* Python str *)

Min(a, b) == IF a < b THEN a ELSE b

Whitespace == {" ", "\n", "\t"}

RECURSIVE LStrip(_)
LStrip(s) == IF s # <<>> /\ Head(s) \in Whitespace THEN LStrip(Tail(s)) ELSE s

RECURSIVE RStrip(_)
RStrip(s) ==
    IF s # <<>> /\ s[Len(s)] \in Whitespace
    THEN RStrip(SubSeq(s, 1, Len(s) - 1)) ELSE s

\* s.strip()
Strip(s) == RStrip(LStrip(s))

\* s.startswith(p)
StartsWith(s, p) == Len(p) <= Len(s) /\ SubSeq(s, 1, Len(p)) = p

\* sub in s
Contains(s, sub) ==
    \E i \in 1..(Len(s) - Len(sub) + 1) : SubSeq(s, i, i + Len(sub) - 1) = sub

\* s.replace(old, ''): leftmost non-overlapping occurrences, old non-empty
RECURSIVE ReplaceWithEmpty(_, _)
ReplaceWithEmpty(s, old) ==
    IF s = <<>> THEN <<>>
    ELSE IF StartsWith(s, old)
         THEN ReplaceWithEmpty(SubSeq(s, Len(old) + 1, Len(s)), old)
         ELSE <<Head(s)>> \o ReplaceWithEmpty(Tail(s), old)

\* sep.join(parts)
RECURSIVE Join(_, _)
Join(sep, parts) ==
    IF parts = <<>> THEN <<>>
    ELSE IF Len(parts) = 1 THEN parts[1]
    ELSE parts[1] \o sep \o Join(sep, Tail(parts))

\* An optional str: Python None or a str
None == [none |-> TRUE, s |-> <<>>]
Some(s) == [none |-> FALSE, s |-> s]
\* truth value of an optional str
Truthy(o) == ~o.none /\ o.s # <<>>
\* f'{o}'
Format(o) == IF o.none THEN <<"N", "o", "n", "e">> ELSE o.s

-----------------------------------------------------------------------------
(* livecc_worker: the text it builds *)

Ellipsis == <<".", ".", ".">>
SpaceEllipsis == <<" ", ".", ".", ".">>

\* the generator of line 92: cc.replace(' ...', '') for _, _, cc in responses if cc
RECURSIVE StrippedFragments(_)
StrippedFragments(responses) ==
    IF responses = <<>> THEN <<>>
    ELSE LET cc == Head(responses)[3]
             rest == StrippedFragments(Tail(responses))
         IN  IF Truthy(cc)
             THEN <<ReplaceWithEmpty(cc.s, SpaceEllipsis)>> \o rest
             ELSE rest

\* mutant: the generator has no "if cc"; a missing text counts as empty
RECURSIVE StrippedAll(_)
StrippedAll(responses) ==
    IF responses = <<>> THEN <<>>
    ELSE <<ReplaceWithEmpty(Head(responses)[3].s, SpaceEllipsis)>>
         \o StrippedAll(Tail(responses))

OverallCCNoFilter(responses) ==
    Strip(Join(<<" ">>, StrippedAll(responses))) \o Ellipsis

\* lines 91-94
OverallCC(responses) ==
    Strip(Join(<<" ">>, StrippedFragments(responses))) \o Ellipsis

\* lines 73-76
commentary_prompt ==
    <<"You are an expert video commentator providing real-time, insightful, and engaging commentary on visual content.", "\n">>

TitleSentence(title) == <<"This is a video titled \"">> \o title \o <<"\".", "\n">>
PreviousCommentary(preasr) ==
    <<"Here is previous commentary of the video:", "\n", "\n">> \o preasr \o <<"\n", "\n">>
ContinueInstruction == <<"Please continue to comment the video.">>

\* mutant: the title is kept when there is previous commentary
SimplePromptKeepsTitle(title, preasr) ==
    Strip(Format(title) \o <<"\n">> \o Format(preasr))

\* lines 69-71
SimplePrompt(title, preasr) ==
    LET title2 == IF Truthy(preasr) THEN Some(<<>>) ELSE title
    IN  Strip(Format(title2) \o <<"\n">> \o Format(preasr))

\* lines 72-82
InstructPrompt(title, preasr) ==
    commentary_prompt
    \o (IF Truthy(title) THEN TitleSentence(title.s) ELSE <<>>)
    \o (IF Truthy(preasr)
        THEN PreviousCommentary(preasr.s) \o ContinueInstruction ELSE <<>>)

\* lines 69-82
OverallPrompt(simple, title, preasr) ==
    IF simple THEN SimplePrompt(title, preasr) ELSE InstructPrompt(title, preasr)

-----------------------------------------------------------------------------
(* json: a document is a sequence of tokens [k, v]; k is the kind of the   *)
(* token and v its text                                                    *)

Tok(k) == [k |-> k, v |-> <<>>]
KeyTok(name) == [k |-> "key", v |-> <<name>>]

Digit(d) ==
    CASE d = 0 -> "0" [] d = 1 -> "1" [] d = 2 -> "2" [] d = 3 -> "3"
      [] d = 4 -> "4" [] d = 5 -> "5" [] d = 6 -> "6" [] d = 7 -> "7"
      [] d = 8 -> "8" [] d = 9 -> "9"
DigitValue(c) == CHOOSE d \in 0..9 : Digit(d) = c
IsDigit(c) == \E d \in 0..9 : Digit(d) = c

\* str(i) for a natural number
RECURSIVE NumStr(_)
NumStr(i) == IF i < 10 THEN <<Digit(i)>> ELSE NumStr(i \div 10) \o <<Digit(i % 10)>>

\* int(s) for a string of digits
RECURSIVE NumValue(_)
NumValue(s) ==
    IF Len(s) = 1 THEN DigitValue(s[1])
    ELSE 10 * NumValue(SubSeq(s, 1, Len(s) - 1)) + DigitValue(s[Len(s)])

IsNumStr(s) ==
    /\ s # <<>>
    /\ \A i \in 1..Len(s) : IsDigit(s[i])
    /\ (Len(s) > 1 => s[1] # "0")

\* Python values that occur in a record: int or str
IntV(i) == [t |-> "int", i |-> i, s |-> <<>>]
StrV(s) == [t |-> "str", i |-> 0, s |-> s]

ValueTok(val) ==
    IF val.t = "int" THEN [k |-> "num", v |-> NumStr(val.i)]
    ELSE [k |-> "str", v |-> val.s]

\* json.dumps(obj) for a dict given as a sequence of [key, val], default separators
DumpItems(items) ==
    [j \in 1..(IF items = <<>> THEN 0 ELSE 4 * Len(items) - 1) |->
        LET item == items[(j + 3) \div 4]
        IN  CASE j % 4 = 1 -> KeyTok(item.key)
              [] j % 4 = 2 -> Tok(": ")
              [] j % 4 = 3 -> ValueTok(item.val)
              [] OTHER -> Tok(", ")]

json_dumps(obj) == <<Tok("{")>> \o DumpItems(obj) \o <<Tok("}")>>

\* the lexical structure json.loads accepts; it ignores the white space
\* of the separators
IsValueTok(tok) == (tok.k = "num" /\ IsNumStr(tok.v)) \/ tok.k = "str"
IsColon(tok) == tok.k \in {": ", ":"}
IsComma(tok) == tok.k \in {", ", ","}

ItemsOk(toks) ==
    /\ Len(toks) >= 3
    /\ Len(toks) % 4 = 3
    /\ \A j \in 1..Len(toks) :
           CASE j % 4 = 1 -> toks[j].k = "key"
             [] j % 4 = 2 -> IsColon(toks[j])
             [] j % 4 = 3 -> IsValueTok(toks[j])
             [] OTHER -> IsComma(toks[j])

JsonValid(text) ==
    /\ Len(text) >= 2
    /\ text[1].k = "{" /\ text[Len(text)].k = "}"
    /\ (Len(text) = 2 \/ ItemsOk(SubSeq(text, 2, Len(text) - 1)))

TokValue(tok) == IF tok.k = "num" THEN IntV(NumValue(tok.v)) ELSE StrV(tok.v)

LoadItems(toks) ==
    [i \in 1..((Len(toks) + 1) \div 4) |->
        [key |-> toks[4 * i - 3].v[1], val |-> TokValue(toks[4 * i - 1])]]

NewLine == Tok("\n")

\* white space around the document is ignored by json.loads
RECURSIVE DropTrailingNewLines(_)
DropTrailingNewLines(text) ==
    IF text # <<>> /\ text[Len(text)] = NewLine
    THEN DropTrailingNewLines(SubSeq(text, 1, Len(text) - 1)) ELSE text

\* json.loads(text): [ok |-> FALSE] stands for json.JSONDecodeError
json_loads(text) ==
    LET doc == DropTrailingNewLines(text)
    IN  IF JsonValid(doc)
        THEN [ok |-> TRUE, obj |-> LoadItems(SubSeq(doc, 2, Len(doc) - 1))]
        ELSE [ok |-> FALSE, obj |-> <<>>]

\* dict.get / key in dict / dict[key]
HasKey(obj, key) == \E i \in 1..Len(obj) : obj[i].key = key
GetItem(obj, key) == obj[CHOOSE i \in 1..Len(obj) : obj[i].key = key].val

-----------------------------------------------------------------------------
(* distributed_generate_livecc.py: data *)

\* ds[idx]: the records of the dataset split.  Titles and previous
\* commentary cover present, empty and missing values.
Dataset(idx) ==
    [video_id |-> StrV(<<"v">> \o NumStr(idx)),
     event_id |-> IntV(idx),
     begin |-> IntV(10 * idx),
     end |-> IntV(10 * idx + 5),
     event_title |-> CASE idx % 4 = 0 -> Some(<<"T">>)
                       [] idx % 4 = 1 -> Some(<<"T">>)
                       [] idx % 4 = 2 -> None
                       [] OTHER -> Some(<<>>),
     preasr_text |-> CASE idx % 4 = 0 -> None
                       [] idx % 4 = 1 -> Some(<<"p", " ">>)
                       [] idx % 4 = 2 -> Some(<<" ", "p">>)
                       [] OTHER -> Some(<<>>)]

Fragment(cc) == <<<<>>, <<>>, Some(cc)>>

\* what infer.live_cc_once_for_evaluation may return in the pipeline model
InferReturns ==
    { <<>>,
      <<Fragment(<<"a", " ", ".", ".", ".">>), Fragment(<<"b">>)>> }

\* idxs[start::step] of a list, start >= 0, step >= 1 (0-based start)
RECURSIVE Slice(_, _, _)
Slice(idxs, start, step) ==
    IF start >= Len(idxs) THEN <<>>
    ELSE <<idxs[start + 1]>> \o Slice(idxs, start + step, step)

\* list(range(k))
Range(k) == [i \in 1..k |-> i - 1]

\* mutant: the device is counted from 1
ShardFromOne(device_id, size, workers) == Slice(Range(size), device_id + 1, workers)

\* mutant: the stride is dropped, idxs[device_id:]
ShardTail(device_id, size, workers) == Slice(Range(size), device_id, 1)

\* lines 49-50
Shard(device_id, size, workers) == Slice(Range(size), device_id, workers)

\* lines 97-103: the dict that is dumped
ResultRecord(idx, cc) ==
    LET record == Dataset(idx)
    IN  << [key |-> "video_id", val |-> record.video_id],
           [key |-> "event_id", val |-> record.event_id],
           [key |-> "begin", val |-> record.begin],
           [key |-> "end", val |-> record.end],
           [key |-> "pred", val |-> StrV(cc)] >>

NoFiles == [i \in {} |-> <<>>]
NoDir == [exists |-> FALSE, files |-> NoFiles]

\* os.path.exists(os.path.join(save_dir, f"{idx}.json"))
Exists(dir, idx) == dir.exists /\ idx \in DOMAIN dir.files

\* the file idx.json of dir holds text
WithFile(dir, idx, text) ==
    [exists |-> TRUE,
     files |-> [i \in (DOMAIN dir.files) \cup {idx} |->
                    IF i = idx THEN text ELSE dir.files[i]]]

Devices == 0..(num_workers - 1)
Terminated(d) == wpc[d] \in {"done", "crashed"}

-----------------------------------------------------------------------------
(* livecc_worker, one action per step of the worker process device_id *)

\* lines 46-53: the model and the dataset are loaded, the shard is computed
\* and os.makedirs makes the directory, with its parents
WorkerStart(d) ==
    /\ wpc[d] = "start"
    /\ idxs_on_device' = [idxs_on_device EXCEPT ![d] = Shard(d, n, num_workers)]
    /\ output_dir' = TRUE
    /\ save_dir' = [save_dir EXCEPT !.exists = TRUE]
    /\ wpos' = [wpos EXCEPT ![d] = 1]
    /\ wpc' = [wpc EXCEPT ![d] = "loop"]
    /\ UNCHANGED <<n, num_workers, jsonl, pc_main, pending, overall_cc, run, crashes, pre_dir, agg_dir, inferred, writes, rewrites>>

\* lines 46-48: LiveCCDemoInfer(...) or load_dataset(...) raises; the
\* exception is not caught and the worker process ends before line 53,
\* with no shard computed and no directory made
WorkerStartRaise(d) ==
    /\ wpc[d] = "start"
    /\ crashes < MaxCrashes
    /\ crashes' = crashes + 1
    /\ wpc' = [wpc EXCEPT ![d] = "crashed"]
    /\ UNCHANGED <<n, num_workers, output_dir, save_dir, jsonl, pc_main,
                   pending, wpos, idxs_on_device, overall_cc, run, pre_dir,
                   agg_dir, inferred, writes, rewrites>>

\* mutant: no resume check
SkipCheckNever(dir, idx) == FALSE

\* mutant: the resume check skips only files that hold a JSON document
SkipCheckValid(dir, idx) == Exists(dir, idx) /\ JsonValid(dir.files[idx])

\* mutant: the resume check skips every index
SkipCheckAlways(dir, idx) == TRUE

\* lines 55-58: the resume check of the next index of the shard
SkipCheck(dir, idx) == Exists(dir, idx)

\* lines 55-89: next index; skip it, or read the record and call inference.
\* The prompt of lines 69-82 is read by the inference call alone
\* (OverallPrompt, SpecPrompt).
WorkerNext(d) ==
    /\ wpc[d] = "loop"
    /\ IF wpos[d] > Len(idxs_on_device[d])
       THEN /\ wpc' = [wpc EXCEPT ![d] = "done"]
            /\ UNCHANGED <<wpos, inferred>>
       ELSE LET idx == idxs_on_device[d][wpos[d]]
            IN  IF SkipCheck(save_dir, idx)
                THEN /\ wpos' = [wpos EXCEPT ![d] = @ + 1]
                     /\ UNCHANGED <<wpc, inferred>>
                ELSE /\ inferred' = inferred \cup {idx}
                     /\ wpc' = [wpc EXCEPT ![d] = "infer"]
                     /\ UNCHANGED wpos
    /\ UNCHANGED <<n, num_workers, output_dir, save_dir, jsonl, pc_main, pending,
                   idxs_on_device, overall_cc, run, crashes, pre_dir, agg_dir,
                   writes, rewrites>>

\* lines 84-94: inference returns its fragments, which are concatenated
WorkerInferReturn(d) ==
    /\ wpc[d] = "infer"
    /\ \E responses \in InferReturns :
           overall_cc' = [overall_cc EXCEPT ![d] = OverallCC(responses)]
    /\ wpc' = [wpc EXCEPT ![d] = "open"]
    /\ UNCHANGED <<n, num_workers, output_dir, save_dir, jsonl, pc_main, pending,
                   wpos, idxs_on_device, run, crashes, pre_dir, agg_dir,
                   inferred, writes, rewrites>>

\* mutant: a worker whose inference raises removes the shard directory
WorkerInferRaiseCleanup(d) ==
    /\ wpc[d] = "infer"
    /\ crashes < MaxCrashes
    /\ crashes' = crashes + 1
    /\ save_dir' = NoDir
    /\ wpc' = [wpc EXCEPT ![d] = "crashed"]
    /\ UNCHANGED <<n, num_workers, output_dir, jsonl, pc_main, pending,
                   wpos, idxs_on_device, overall_cc, run, pre_dir, agg_dir,
                   inferred, writes, rewrites>>

\* lines 84-89: inference raises; the exception is not caught and the
\* worker process ends
WorkerInferRaise(d) ==
    /\ wpc[d] = "infer"
    /\ crashes < MaxCrashes
    /\ crashes' = crashes + 1
    /\ wpc' = [wpc EXCEPT ![d] = "crashed"]
    /\ UNCHANGED <<n, num_workers, output_dir, save_dir, jsonl, pc_main, pending,
                   wpos, idxs_on_device, overall_cc, run, pre_dir, agg_dir,
                   inferred, writes, rewrites>>

\* line 96: open(save_path, 'w') creates or truncates the file; without
\* the directory it raises FileNotFoundError, which is not caught
WorkerOpen(d) ==
    /\ wpc[d] = "open"
    /\ LET idx == idxs_on_device[d][wpos[d]]
       IN  IF save_dir.exists
           THEN /\ save_dir' = WithFile(save_dir, idx, <<>>)
                /\ writes' = writes \cup {<<d, idx>>}
                /\ rewrites' = IF \E w \in writes : w[2] = idx
                               THEN rewrites \cup {idx} ELSE rewrites
                /\ wpc' = [wpc EXCEPT ![d] = "dump"]
           ELSE /\ wpc' = [wpc EXCEPT ![d] = "crashed"]
                /\ UNCHANGED <<save_dir, writes, rewrites>>
    /\ UNCHANGED <<n, num_workers, output_dir, jsonl, pc_main, pending, wpos,
                   idxs_on_device, overall_cc, run, crashes, pre_dir,
                   agg_dir, inferred>>

\* lines 97-103: json.dump of the record, the file is closed; the caption
\* is not read again before line 91 assigns it anew
WorkerDump(d) ==
    /\ wpc[d] = "dump"
    /\ LET idx == idxs_on_device[d][wpos[d]]
       IN  save_dir' = WithFile(save_dir, idx,
                                json_dumps(ResultRecord(idx, overall_cc[d])))
    /\ overall_cc' = [overall_cc EXCEPT ![d] = <<>>]
    /\ wpos' = [wpos EXCEPT ![d] = @ + 1]
    /\ wpc' = [wpc EXCEPT ![d] = "loop"]
    /\ UNCHANGED <<n, num_workers, output_dir, jsonl, pc_main, pending,
                   idxs_on_device, run, crashes, pre_dir,
                   agg_dir, inferred, writes, rewrites>>

\* lines 96-103: the process ends between open and the end of json.dump;
\* the file keeps what had been written, a proper prefix of the document
\* (of at most MaxCut tokens in this model)
WorkerCrashInWrite(d) ==
    /\ wpc[d] = "dump"
    /\ crashes < MaxCrashes
    /\ LET idx == idxs_on_device[d][wpos[d]]
           text == json_dumps(ResultRecord(idx, overall_cc[d]))
       IN  \E k \in 0..Min(MaxCut, Len(text) - 1) :
               save_dir' = WithFile(save_dir, idx, SubSeq(text, 1, k))
    /\ crashes' = crashes + 1
    /\ wpc' = [wpc EXCEPT ![d] = "crashed"]
    /\ UNCHANGED <<n, num_workers, output_dir, jsonl, pc_main, pending, wpos,
                   idxs_on_device, overall_cc, run, pre_dir, agg_dir,
                   inferred, writes, rewrites>>

-----------------------------------------------------------------------------
(* __main__ *)

\* lines 117-122, local_mp: the driver waits until every worker process
\* has ended, with or without an exception, and goes on to line 124
LocalMpReturn ==
    /\ pc_main = "pool"
    /\ \A d \in Devices : Terminated(d)
    /\ pc_main' = "agg"
    /\ UNCHANGED <<n, num_workers, output_dir, save_dir, jsonl, pending, wpc, wpos,
                   idxs_on_device, overall_cc, run, crashes, pre_dir,
                   agg_dir, inferred, writes, rewrites>>

\* mutant: the aggregation does not wait for local_mp to return
AggOpenEarly ==
    /\ pc_main \in {"pool", "agg"}
    /\ jsonl' = [exists |-> TRUE, lines |-> <<>>]
    /\ pending' = DOMAIN save_dir.files
    /\ agg_dir' = save_dir
    /\ pc_main' = "merge"
    /\ UNCHANGED <<n, num_workers, output_dir, save_dir, wpc, wpos, idxs_on_device,
                   overall_cc, run, crashes, pre_dir, inferred, writes, rewrites>>

\* mutant: the aggregation counts the files against the dataset size
AggOpenCounted ==
    /\ pc_main = "agg"
    /\ IF Cardinality(DOMAIN save_dir.files) = n
       THEN /\ jsonl' = [exists |-> TRUE, lines |-> <<>>]
            /\ pending' = DOMAIN save_dir.files
            /\ pc_main' = "merge"
       ELSE /\ pc_main' = "failed"
            /\ UNCHANGED <<jsonl, pending>>
    /\ agg_dir' = save_dir
    /\ UNCHANGED <<n, num_workers, output_dir, save_dir, wpc, wpos, idxs_on_device,
                   overall_cc, run, crashes, pre_dir, inferred, writes, rewrites>>

\* lines 124-126: the JSONL file is opened for writing, the directory
\* listed; open raises FileNotFoundError when args.output_dir does not
\* exist, os.listdir when the shard directory does not, and the script ends
AggOpen ==
    /\ pc_main = "agg"
    /\ IF ~output_dir
       THEN /\ pc_main' = "failed"
            /\ UNCHANGED <<jsonl, pending>>
       ELSE IF ~save_dir.exists
       THEN /\ jsonl' = [exists |-> TRUE, lines |-> <<>>]
            /\ pc_main' = "failed"
            /\ UNCHANGED pending
       ELSE /\ jsonl' = [exists |-> TRUE, lines |-> <<>>]
            /\ pending' = DOMAIN save_dir.files
            /\ pc_main' = "merge"
    /\ agg_dir' = save_dir
    /\ UNCHANGED <<n, num_workers, output_dir, save_dir, wpc, wpos, idxs_on_device,
                   overall_cc, run, crashes, pre_dir, inferred, writes, rewrites>>

\* mutant: only the last file of the listing is written to the JSONL file
AggReadLast ==
    /\ pc_main = "merge"
    /\ \E file \in pending :
           \E datum \in {json_loads(save_dir.files[file])} :
               IF datum.ok
               THEN /\ jsonl' = [jsonl EXCEPT !.lines =
                            IF pending = {file}
                            THEN Append(@, json_dumps(datum.obj) \o <<NewLine>>)
                            ELSE @]
                    /\ pending' = pending \ {file}
                    /\ UNCHANGED pc_main
               ELSE /\ pc_main' = "failed"
                    /\ UNCHANGED <<jsonl, pending>>
    /\ UNCHANGED <<n, num_workers, output_dir, save_dir, wpc, wpos, idxs_on_device,
                   overall_cc, run, crashes, pre_dir, agg_dir, inferred,
                   writes, rewrites>>

\* lines 126-128: one file of the listing, in the order os.listdir gave
AggRead ==
    /\ pc_main = "merge"
    /\ \E file \in pending :
           \E datum \in {json_loads(save_dir.files[file])} :
               IF datum.ok
               THEN /\ jsonl' = [jsonl EXCEPT !.lines =
                            Append(@, json_dumps(datum.obj) \o <<NewLine>>)]
                    /\ pending' = pending \ {file}
                    /\ UNCHANGED pc_main
               ELSE /\ pc_main' = "failed"
                    /\ UNCHANGED <<jsonl, pending>>
    /\ UNCHANGED <<n, num_workers, output_dir, save_dir, wpc, wpos, idxs_on_device,
                   overall_cc, run, crashes, pre_dir, agg_dir, inferred,
                   writes, rewrites>>

\* lines 129-130: shutil.rmtree(save_dir)
AggRmtree ==
    /\ pc_main = "merge" /\ pending = {}
    /\ save_dir' = NoDir
    /\ pc_main' = "done"
    /\ UNCHANGED <<n, num_workers, output_dir, jsonl, pending, wpc, wpos,
                   idxs_on_device, overall_cc, run, crashes, pre_dir,
                   agg_dir, inferred, writes, rewrites>>

\* the script, ended by an exception, is started again with the same
\* arguments
Rerun ==
    /\ pc_main = "failed"
    /\ run < MaxRuns
    /\ run' = run + 1
    /\ pc_main' = "pool"
    /\ pending' = {}
    /\ wpc' = [d \in Devices |-> "start"]
    /\ wpos' = [d \in Devices |-> 1]
    /\ idxs_on_device' = [d \in Devices |-> <<>>]
    /\ overall_cc' = [d \in Devices |-> <<>>]
    /\ pre_dir' = save_dir
    /\ agg_dir' = NoDir
    /\ inferred' = {}
    /\ writes' = {}
    /\ rewrites' = {}
    /\ UNCHANGED <<n, num_workers, output_dir, save_dir, jsonl, crashes>>

-----------------------------------------------------------------------------
(* Specification of the generation pipeline *)

FilterIdle ==
    /\ lines = <<>> /\ results = <<>> /\ f_pc = "idle"
    /\ existed_lines = <<>> /\ out_file = [exists |-> FALSE, lines |-> <<>>]

TextIdle ==
    /\ t_pc = "idle" /\ t_responses = <<>> /\ t_record = [title |-> None, preasr |-> None]
    /\ t_simple = FALSE /\ t_cc = <<>> /\ t_prompt = <<>>

\* what inference returned in an earlier run
EarlierReturn == <<Fragment(<<"a", " ", ".", ".", ".">>), Fragment(<<"b">>)>>

\* a shard directory left by an earlier, interrupted run: complete files
\* for some of the indices
EarlierDirs(size) ==
    {NoDir} \cup
    { [exists |-> TRUE,
       files |-> [i \in S |-> json_dumps(ResultRecord(i, OverallCC(EarlierReturn)))]] :
         S \in SUBSET (0..(size - 1)) }

Init ==
    /\ n \in 0..MaxN
    /\ num_workers \in 1..MaxWorkers
    /\ save_dir \in EarlierDirs(n)
    /\ output_dir \in (IF save_dir.exists THEN {TRUE} ELSE BOOLEAN)
    /\ jsonl = [exists |-> FALSE, lines |-> <<>>]
    /\ pc_main = "pool"
    /\ pending = {}
    /\ wpc = [d \in Devices |-> "start"]
    /\ wpos = [d \in Devices |-> 1]
    /\ idxs_on_device = [d \in Devices |-> <<>>]
    /\ overall_cc = [d \in Devices |-> <<>>]
    /\ run = 1
    /\ crashes = 0
    /\ pre_dir = save_dir
    /\ agg_dir = NoDir
    /\ inferred = {}
    /\ writes = {}
    /\ rewrites = {}
    /\ FilterIdle
    /\ TextIdle

PipeOnly == UNCHANGED <<filter_vars, text_vars>>

Next ==
    \/ \E d \in Devices : WorkerStart(d) /\ PipeOnly
    \/ \E d \in Devices : WorkerStartRaise(d) /\ PipeOnly
    \/ \E d \in Devices : WorkerNext(d) /\ PipeOnly
    \/ \E d \in Devices : WorkerInferReturn(d) /\ PipeOnly
    \/ \E d \in Devices : WorkerInferRaise(d) /\ PipeOnly
    \/ \E d \in Devices : WorkerOpen(d) /\ PipeOnly
    \/ \E d \in Devices : WorkerDump(d) /\ PipeOnly
    \/ \E d \in Devices : WorkerCrashInWrite(d) /\ PipeOnly
    \/ LocalMpReturn /\ PipeOnly
    \/ AggOpen /\ PipeOnly
    \/ AggRead /\ PipeOnly
    \/ AggRmtree /\ PipeOnly
    \/ Rerun /\ PipeOnly

Spec == Init /\ [][Next]_vars

-----------------------------------------------------------------------------
(* check_video_exists.py *)

Return(value) == [kind |-> "return", val |-> value, exc |-> ""]
Raise(exc) == [kind |-> "raise", val |-> None, exc |-> exc]
Todo == [kind |-> "todo", val |-> None, exc |-> ""]

tvqa == <<"t", "v", "q", "a">>

\* mutant: only the lines of the special-cased subset are returned
check_only_tvqa(line) ==
    LET datum == json_loads(line)
    IN  IF ~datum.ok THEN Raise("JSONDecodeError")
        ELSE IF ~HasKey(datum.obj, "video") THEN Raise("KeyError")
        ELSE IF GetItem(datum.obj, "video").t # "str" THEN Raise("TypeError")
        ELSE IF Contains(GetItem(datum.obj, "video").s, tvqa)
             THEN Return(Some(line))
        ELSE Return(None)

\* lines 4-12: check(line); falling off the end returns None
check(line) ==
    LET datum == json_loads(line)
    IN  IF ~datum.ok THEN Raise("JSONDecodeError")            \* line 5
        ELSE IF ~HasKey(datum.obj, "video") THEN Raise("KeyError")   \* line 6
        ELSE IF GetItem(datum.obj, "video").t # "str" THEN Raise("TypeError")
        ELSE IF Contains(GetItem(datum.obj, "video").s, tvqa)
             THEN Return(Some(line))                          \* line 7
        ELSE IF HasKey(datum.obj, "video")
             THEN Return(Some(line))                          \* lines 9-10
        ELSE Raise("KeyError")        \* line 12: datum['video'] in the handler

\* lines of mvbench.jsonl in the model: objects with an id and, for some,
\* a video path
VideoPaths == { <<"t", "v", "q", "a", "/", "x">>, <<"c", "/", "y">> }
FilterObjects ==
    { << [key |-> "id", val |-> IntV(i)] >> : i \in 0..1 }
    \cup { << [key |-> "id", val |-> IntV(0)], [key |-> "video", val |-> StrV(v)] >> :
             v \in VideoPaths }
FilterLines == { json_dumps(obj) \o <<NewLine>> : obj \in FilterObjects }

RECURSIVE SeqsUpTo(_, _)
SeqsUpTo(S, k) ==
    IF k = 0 THEN {<<>>}
    ELSE LET shorter == SeqsUpTo(S, k - 1)
         IN  shorter \cup { Append(q, x) : q \in {r \in shorter : Len(r) = k - 1}, x \in S }

\* line 15, local_mt: one thread of the pool runs check on one line
CheckLine(i) ==
    /\ f_pc = "map"
    /\ results[i].kind = "todo"
    /\ results' = [results EXCEPT ![i] = check(lines[i])]
    /\ UNCHANGED <<lines, f_pc, existed_lines, out_file>>

\* line 16: [line for line in existed_lines if line is not None]
RECURSIVE NotNone(_)
NotNone(values) ==
    IF values = <<>> THEN <<>>
    ELSE IF Head(values).none THEN NotNone(Tail(values))
         ELSE <<Head(values).s>> \o NotNone(Tail(values))

\* lines 15-16: local_mt returns the results in the order of the input
LocalMtReturn ==
    /\ f_pc = "map"
    /\ \A i \in 1..Len(lines) : results[i].kind = "return"
    /\ existed_lines' = NotNone([i \in 1..Len(lines) |-> results[i].val])
    /\ f_pc' = "write"
    /\ UNCHANGED <<lines, results, out_file>>

\* line 15: the exception of a check reaches the script, which ends
LocalMtRaise ==
    /\ f_pc = "map"
    /\ \E i \in 1..Len(lines) : results[i].kind = "raise"
    /\ f_pc' = "failed"
    /\ UNCHANGED <<lines, results, existed_lines, out_file>>

\* lines 18-19
FilterWrite ==
    /\ f_pc = "write"
    /\ out_file' = [exists |-> TRUE, lines |-> existed_lines]
    /\ f_pc' = "done"
    /\ UNCHANGED <<lines, results, existed_lines>>

PipeIdle ==
    /\ n = 0 /\ num_workers = 1 /\ output_dir = FALSE /\ save_dir = NoDir
    /\ jsonl = [exists |-> FALSE, lines |-> <<>>] /\ pc_main = "idle"
    /\ pending = {} /\ wpc = <<>> /\ wpos = <<>> /\ idxs_on_device = <<>>
    /\ overall_cc = <<>> /\ run = 1 /\ crashes = 0
    /\ pre_dir = NoDir /\ agg_dir = NoDir /\ inferred = {} /\ writes = {} /\ rewrites = {}

\* line 14: lines = open('mvbench.jsonl').readlines()
FilterInit ==
    /\ lines \in SeqsUpTo(FilterLines, MaxLines)
    /\ results = [i \in 1..Len(lines) |-> Todo]
    /\ f_pc = "map"
    /\ existed_lines = <<>>
    /\ out_file = [exists |-> FALSE, lines |-> <<>>]
    /\ PipeIdle
    /\ TextIdle

FilterOnly == UNCHANGED <<pipe_vars, text_vars>>

FilterNext ==
    \/ \E i \in 1..Len(lines) : CheckLine(i) /\ FilterOnly
    \/ LocalMtReturn /\ FilterOnly
    \/ LocalMtRaise /\ FilterOnly
    \/ FilterWrite /\ FilterOnly

SpecFilter == FilterInit /\ [][FilterNext]_vars

-----------------------------------------------------------------------------
(* The text functions of livecc_worker on generated inputs *)

\* texts made of at most k of the given pieces
RECURSIVE TextsOf(_, _)
TextsOf(pieces, k) ==
    IF k = 0 THEN {<<>>}
    ELSE LET shorter == TextsOf(pieces, k - 1)
         IN  shorter \cup { t \o p : t \in shorter, p \in pieces }

OptTextsOf(pieces, k) == {None} \cup { Some(t) : t \in TextsOf(pieces, k) }

\* texts of fragments: with and without the marker, with white space at
\* either end, the marker alone and twice
FragmentTexts ==
    LET a == <<"a">>
        sp == <<" ">>
    IN  { <<>>, a, sp, SpaceEllipsis, a \o sp, sp \o a, a \o SpaceEllipsis,
          SpaceEllipsis \o a, sp \o SpaceEllipsis, SpaceEllipsis \o SpaceEllipsis,
          sp \o a \o SpaceEllipsis }
Fragments == { <<<<>>, <<>>, cc>> : cc \in {None} \cup { Some(t) : t \in FragmentTexts } }

\* the fragments of one inference call
ConcatInit ==
    /\ t_responses \in SeqsUpTo(Fragments, MaxFrags) \cup InferReturns
    /\ t_record = [title |-> None, preasr |-> None]
    /\ t_simple = FALSE
    /\ t_pc = "input" /\ t_cc = <<>> /\ t_prompt = <<>>
    /\ PipeIdle
    /\ FilterIdle

\* lines 91-94
Concatenate ==
    /\ t_pc = "input"
    /\ t_cc' = OverallCC(t_responses)
    /\ t_pc' = "cc"
    /\ UNCHANGED <<t_responses, t_record, t_simple, t_prompt>>

ConcatNext == Concatenate /\ UNCHANGED <<pipe_vars, filter_vars>>

SpecConcat == ConcatInit /\ [][ConcatNext]_vars

TitlePieces == { <<"T">>, <<" ">>, <<"\n">> }
PreasrPieces == { <<"p">>, <<" ">>, <<"\n">> }

\* event_title and preasr_text of one record, and the context mode
PromptInit ==
    /\ t_record \in [title : OptTextsOf(TitlePieces, MaxParts),
                     preasr : OptTextsOf(PreasrPieces, MaxParts)]
    /\ t_simple \in BOOLEAN
    /\ t_responses = <<>>
    /\ t_pc = "input" /\ t_cc = <<>> /\ t_prompt = <<>>
    /\ PipeIdle
    /\ FilterIdle

\* lines 69-82
BuildPrompt ==
    /\ t_pc = "input"
    /\ t_prompt' = OverallPrompt(t_simple, t_record.title, t_record.preasr)
    /\ t_pc' = "prompt"
    /\ UNCHANGED <<t_responses, t_record, t_simple, t_cc>>

PromptNext == BuildPrompt /\ UNCHANGED <<pipe_vars, filter_vars>>

SpecPrompt == PromptInit /\ [][PromptNext]_vars

-----------------------------------------------------------------------------
(* The sharding alone, on larger datasets and worker counts *)

ShardInit ==
    /\ n \in 0..MaxShardN
    /\ num_workers \in 1..MaxShardW
    /\ output_dir \in BOOLEAN
    /\ save_dir = NoDir
    /\ jsonl = [exists |-> FALSE, lines |-> <<>>]
    /\ pc_main = "pool"
    /\ pending = {}
    /\ wpc = [d \in Devices |-> "start"]
    /\ wpos = [d \in Devices |-> 1]
    /\ idxs_on_device = [d \in Devices |-> <<>>]
    /\ overall_cc = [d \in Devices |-> <<>>]
    /\ run = 1 /\ crashes = 0 /\ pre_dir = NoDir /\ agg_dir = NoDir
    /\ inferred = {} /\ writes = {} /\ rewrites = {}
    /\ FilterIdle
    /\ TextIdle

ShardNext == \E d \in Devices : WorkerStart(d) /\ PipeOnly

SpecShard == ShardInit /\ [][ShardNext]_vars

-----------------------------------------------------------------------------
(* Properties *)

Elems(q) == { q[i] : i \in 1..Len(q) }
Started(d) == wpc[d] # "start"

\* C1: the shards idxs[d::w] of the devices d in [0, w) are pairwise
\* disjoint, their union is {0,...,n-1}, and the shard of d holds exactly
\* the indices i with i mod w = d (each once, in ascending order).
C1_ShardsPartition ==
    /\ \A d \in Devices : Started(d) =>
          /\ Elems(idxs_on_device[d]) = { i \in 0..(n - 1) : i % num_workers = d }
          /\ \A j, k \in 1..Len(idxs_on_device[d]) :
                 j < k => idxs_on_device[d][j] < idxs_on_device[d][k]
    /\ \A d, e \in Devices :
          Started(d) /\ Started(e) /\ d # e =>
              Elems(idxs_on_device[d]) \cap Elems(idxs_on_device[e]) = {}
    /\ (\A d \in Devices : Started(d)) =>
          UNION { Elems(idxs_on_device[d]) : d \in Devices } = 0..(n - 1)

\* every worker has its shard, more indices than workers, some shard of
\* two or more and the last shard shorter than the first
C1_Witness ==
    /\ \A d \in Devices : Started(d)
    /\ num_workers >= 3 /\ n > num_workers
    /\ Len(idxs_on_device[0]) >= 2
    /\ Len(idxs_on_device[num_workers - 1]) < Len(idxs_on_device[0])

Files(dir) == DOMAIN dir.files
WrittenIdxs == { w[2] : w \in writes }
WorkersEnded == \A d \in Devices : Terminated(d)

\* C2: an index whose file exists in the shard directory when the run
\* starts is not passed to inference and its file is not written by any
\* worker in that run; the file keeps its content until the workers finish
\* (and up to the removal of the directory).
C2_ResumeIdempotence ==
    \A idx \in Files(pre_dir) :
        /\ idx \notin inferred
        /\ idx \notin WrittenIdxs
        /\ pc_main # "done" =>
               /\ Exists(save_dir, idx)
               /\ save_dir.files[idx] = pre_dir.files[idx]

\* the workers have finished a run that found a file and generated another
C2_Witness ==
    /\ pc_main = "agg"
    /\ Files(pre_dir) # {}
    /\ inferred # {}
    /\ \E idx \in Files(pre_dir), d \in Devices :
           /\ idx \in Elems(idxs_on_device[d])
           /\ \E j \in inferred : j \in Elems(idxs_on_device[d]) /\ j > idx

\* the files of dir whose text is text
FilesWith(dir, text) == { f \in Files(dir) : dir.files[f] = text }
LinesWith(text) == { j \in 1..Len(jsonl.lines) : jsonl.lines[j] = text }

\* C3: when the aggregation has finished over a directory of k files with
\* valid JSON objects, the JSONL file has exactly k lines, every line is the
\* content of one file followed by a newline, every file is the content of
\* exactly one line, and the directory is gone; over such a directory the
\* aggregation does not fail.
C3_Aggregation ==
    /\ pc_main = "done" =>
          /\ ~save_dir.exists
          /\ jsonl.exists
          /\ Len(jsonl.lines) = Cardinality(Files(agg_dir))
          /\ \A f \in Files(agg_dir) :
                 Cardinality(LinesWith(agg_dir.files[f] \o <<NewLine>>)) = 1
          /\ \A j \in 1..Len(jsonl.lines) :
                 \E f \in Files(agg_dir) :
                     /\ jsonl.lines[j] = agg_dir.files[f] \o <<NewLine>>
                     /\ Cardinality(FilesWith(agg_dir, agg_dir.files[f])) = 1
    /\ (pc_main = "failed" /\ agg_dir.exists) =>
          \E f \in Files(agg_dir) : ~JsonValid(agg_dir.files[f])

\* an aggregation of three files, one kept from before the run and one new
C3_Witness ==
    /\ pc_main = "done"
    /\ Cardinality(Files(agg_dir)) >= 3
    /\ Files(pre_dir) # {}
    /\ WrittenIdxs # {}

\* C9: a file idx.json is opened for writing only by the worker d with
\* idx mod num_workers = d, at most once in a run, and two workers are never
\* between open and close of the same file.
C9_WriteExclusivity ==
    /\ \A w \in writes : w[2] % num_workers = w[1]
    /\ \A v, w \in writes : v[2] = w[2] => v[1] = w[1]
    /\ rewrites = {}
    /\ \A d, e \in Devices :
          (d # e /\ wpc[d] = "dump" /\ wpc[e] = "dump") =>
              idxs_on_device[d][wpos[d]] # idxs_on_device[e][wpos[e]]

\* two workers are writing at the same moment, after an earlier write
C9_Witness ==
    /\ \E d, e \in Devices : d # e /\ wpc[d] = "dump" /\ wpc[e] = "dump"
    /\ Cardinality(writes) >= 3

\* a worker of this run has crashed
Crashed == \E d \in Devices : wpc[d] = "crashed"

\* every file found at the start of the run or opened for writing in it is
\* in the directory, and a file written in the run is complete unless its
\* writer is at it or crashed at it
FilesKept ==
    /\ \A idx \in WrittenIdxs \cup Files(pre_dir) : Exists(save_dir, idx)
    /\ \A w \in writes :
           LET d == w[1]
               idx == w[2]
           IN  \/ JsonValid(save_dir.files[idx])
               \/ /\ wpc[d] \in {"dump", "crashed"}
                  /\ idxs_on_device[d][wpos[d]] = idx

\* a run that follows another invokes inference for none of the indices
\* that have a file at its start and, once its workers are done, for all
\* the others
RerunSkips ==
    run >= 2 =>
        /\ inferred \cap Files(pre_dir) = {}
        /\ (\A d \in Devices : wpc[d] = "done") =>
               inferred = (0..(n - 1)) \ Files(pre_dir)

\* the step in which a worker crashes changes nothing of the other workers,
\* neither makes nor removes the directory and leaves every complete file as
\* it is; the next run starts from the
\* directory as the run before left it
C8_Step ==
    /\ \A d \in Devices :
           (wpc[d] # "crashed" /\ wpc'[d] = "crashed") =>
               /\ \A e \in Devices \ {d} :
                      /\ wpc'[e] = wpc[e]
                      /\ wpos'[e] = wpos[e]
                      /\ idxs_on_device'[e] = idxs_on_device[e]
               /\ save_dir'.exists = save_dir.exists
               /\ \A f \in Files(save_dir) :
                      JsonValid(save_dir.files[f]) =>
                          /\ f \in Files(save_dir')
                          /\ save_dir'.files[f] = save_dir.files[f]
    /\ run' # run => (save_dir' = save_dir /\ pre_dir' = save_dir)

C8_PersistState ==
    /\ Crashed => FilesKept
    /\ RerunSkips

C8_MergedState ==
    /\ (Crashed /\ pc_main # "done") => FilesKept
    /\ (Crashed /\ pc_main = "done") =>
          /\ ~save_dir.exists
          /\ jsonl.exists
          /\ Len(jsonl.lines) = Cardinality(Files(agg_dir))
          /\ WrittenIdxs \cup Files(pre_dir) = Files(agg_dir)
    /\ pc_main = "failed" =>
          /\ save_dir = agg_dir
          /\ \/ ~save_dir.exists
             \/ \E f \in Files(save_dir) : ~JsonValid(save_dir.files[f])
    /\ RerunSkips

C10_State == pc_main \in {"agg", "merge", "done"} => WorkersEnded

C10_Step ==
    /\ (pc_main \in {"merge", "done"} /\ run' = run) =>
          /\ writes' = writes
          /\ save_dir' = save_dir \/ save_dir' = NoDir
    /\ (save_dir.exists /\ ~save_dir'.exists) => WorkersEnded

C10_BarrierOrdering == [](C10_State) /\ [][C10_Step]_vars

\* the aggregation is reading files that two workers wrote
C10_Witness ==
    /\ pc_main = "merge"
    /\ num_workers >= 2
    /\ pending # {} /\ pending # Files(save_dir)
    /\ \E v, w \in writes : v[1] # w[1]

LacksVideo(line) == ~HasKey(json_loads(line).obj, "video")
MissingVideo == { i \in 1..Len(lines) : LacksVideo(lines[i]) }

\* C4: when exactly one input line lacks the video key, the check of that
\* line raises nothing, the filter runs to its end and the output file has
\* one line fewer than the input.
C4_MissingFieldSwallowed ==
    Cardinality(MissingVideo) = 1 =>
        /\ \A i \in MissingVideo : results[i].kind # "raise"
        /\ f_pc # "failed"
        /\ f_pc = "done" => Len(out_file.lines) = Len(lines) - 1

\* sub is a subsequence of full, in order
IsSubsequence(sub, full) ==
    \E pos \in [1..Len(sub) -> 1..Len(full)] :
        /\ \A j, k \in 1..Len(sub) : j < k => pos[j] < pos[k]
        /\ \A j \in 1..Len(sub) : sub[j] = full[pos[j]]

\* C5: the lines of the output file are a subsequence of the input lines,
\* in the input's order and unchanged, in whatever order the checks ran;
\* when every line has a video key the filter ends and the output equals
\* the input.
C5_FilterOrder ==
    /\ out_file.exists => IsSubsequence(out_file.lines, lines)
    /\ MissingVideo = {} =>
          /\ f_pc # "failed"
          /\ \A i \in 1..Len(lines) :
                 results[i].kind = "todo" \/ results[i] = Return(Some(lines[i]))
          /\ f_pc = "done" => out_file.exists /\ out_file.lines = lines

\* three lines, of the special-cased subset and not, have been written
C5_Witness ==
    /\ f_pc = "done"
    /\ Len(lines) >= 3
    /\ \E i, j \in 1..Len(lines) :
           /\ i < j /\ lines[i] # lines[j]
           /\ Contains(GetItem(json_loads(lines[j]).obj, "video").s, tvqa)
           /\ ~Contains(GetItem(json_loads(lines[i]).obj, "video").s, tvqa)

\* the claims' reading of the caption text, written without the operators
\* of the model
RECURSIVE WithoutMarkerFrom(_, _)
WithoutMarkerFrom(s, i) ==
    IF i > Len(s) THEN <<>>
    ELSE IF /\ i + 3 <= Len(s)
            /\ s[i] = " " /\ s[i + 1] = "." /\ s[i + 2] = "." /\ s[i + 3] = "."
         THEN WithoutMarkerFrom(s, i + 4)
         ELSE <<s[i]>> \o WithoutMarkerFrom(s, i + 1)

NonEmptyFragment(r) == ~r[3].none /\ Len(r[3].s) > 0

MarkerFreeTexts(responses) ==
    LET kept == SelectSeq(responses, NonEmptyFragment)
    IN  [i \in 1..Len(kept) |-> WithoutMarkerFrom(kept[i][3].s, 1)]

RECURSIVE SpaceSeparated(_)
SpaceSeparated(texts) ==
    IF Len(texts) = 0 THEN <<>>
    ELSE IF Len(texts) = 1 THEN texts[1]
    ELSE SpaceSeparated(SubSeq(texts, 1, Len(texts) - 1)) \o <<" ">> \o texts[Len(texts)]

Trimmed(s) ==
    LET solid == { i \in 1..Len(s) : s[i] # " " /\ s[i] # "\n" /\ s[i] # "\t" }
    IN  IF solid = {} THEN <<>>
        ELSE SubSeq(s, CHOOSE i \in solid : \A j \in solid : i <= j,
                       CHOOSE i \in solid : \A j \in solid : i >= j)

ExampleFragments ==
    << <<<<>>, <<>>, Some(<<"a", " ", ".", ".", ".">>)>>, <<<<>>, <<>>, Some(<<"b">>)>> >>

\* C6 as claimed: pred is the space-separated join of the texts of the
\* non-empty fragments, each without the ellipsis marker, followed by one
\* ellipsis.
C6_JoinThenEllipsis ==
    t_pc = "cc" =>
        t_cc = SpaceSeparated(MarkerFreeTexts(t_responses)) \o <<".", ".", ".">>

\* C6, amended: pred is the space-separated join of the texts of the
\* non-empty fragments, each without its " ..." markers, stripped of leading
\* and trailing white space and followed by one "..."; empty fragments
\* contribute nothing; the fragments "a ..." and "b" yield "a b...".
C6_Concatenation ==
    t_pc = "cc" =>
        /\ t_cc = Trimmed(SpaceSeparated(MarkerFreeTexts(t_responses)))
                  \o <<".", ".", ".">>
        /\ t_responses = ExampleFragments =>
               t_cc = <<"a", " ", "b", ".", ".", ".">>

\* fragments with an empty one between two others, a marker and white
\* space at the ends
C6_Witness ==
    /\ t_pc = "cc"
    /\ Len(t_responses) >= 3
    /\ \E i \in 2..(Len(t_responses) - 1) :
           /\ ~NonEmptyFragment(t_responses[i])
           /\ NonEmptyFragment(t_responses[i - 1])
           /\ NonEmptyFragment(t_responses[i + 1])
    /\ \E i \in 1..Len(t_responses) :
           /\ NonEmptyFragment(t_responses[i])
           /\ Contains(t_responses[i][3].s, <<" ", ".", ".", ".">>)
           /\ t_responses[i][3].s[1] = " "
    /\ Len(t_cc) > 3

Present(o) == ~o.none /\ Len(o.s) > 0

FixedPhrases ==
    { "You are an expert video commentator providing real-time, insightful, and engaging commentary on visual content.",
      "This is a video titled \"",
      "Here is previous commentary of the video:",
      "Please continue to comment the video." }

\* C7: in simple mode with previous commentary the prompt is that
\* commentary stripped, whatever the title; in instruct mode the prompt is
\* the preamble, then the title sentence iff there is a title, then the
\* previous-commentary block and the continue instruction iff there is
\* previous commentary; only instruct prompts hold the fixed phrases.
C7_Prompt ==
    t_pc = "prompt" =>
        LET title == t_record.title
            preasr == t_record.preasr
        IN  /\ (t_simple /\ Present(preasr)) => t_prompt = Trimmed(preasr.s)
            /\ ~t_simple =>
                  t_prompt =
                    <<"You are an expert video commentator providing real-time, insightful, and engaging commentary on visual content.", "\n">>
                    \o (IF Present(title)
                        THEN <<"This is a video titled \"">> \o title.s \o <<"\".", "\n">>
                        ELSE <<>>)
                    \o (IF Present(preasr)
                        THEN <<"Here is previous commentary of the video:", "\n", "\n">>
                             \o preasr.s
                             \o <<"\n", "\n", "Please continue to comment the video.">>
                        ELSE <<>>)
            /\ t_simple <=> (Elems(t_prompt) \cap FixedPhrases = {})

\* a simple prompt of a record with a title and previous commentary that
\* has white space at its end
C7_Witness ==
    /\ t_pc = "prompt" /\ t_simple
    /\ Present(t_record.title) /\ t_record.title.s[1] = "T"
    /\ Present(t_record.preasr)
    /\ t_record.preasr.s[1] = "p" /\ Len(t_record.preasr.s) >= 2
    /\ t_prompt = <<"p">>

-----------------------------------------------------------------------------
(* Progress of the pipeline *)

\* the steps the processes take by themselves: the operating system runs
\* every process that can run, an inference call that does not raise
\* returns, and the driver goes on once local_mp has returned; a crash of a
\* worker and a new start of the script are left to the environment
Progress ==
    \/ \E d \in Devices : WorkerStart(d) /\ PipeOnly
    \/ \E d \in Devices : WorkerNext(d) /\ PipeOnly
    \/ \E d \in Devices : WorkerInferReturn(d) /\ PipeOnly
    \/ \E d \in Devices : WorkerOpen(d) /\ PipeOnly
    \/ \E d \in Devices : WorkerDump(d) /\ PipeOnly
    \/ LocalMpReturn /\ PipeOnly
    \/ AggOpen /\ PipeOnly
    \/ AggRead /\ PipeOnly
    \/ AggRmtree /\ PipeOnly

\* the pipeline with crashes and reruns, its processes running on
SpecFair == Init /\ [][Next]_vars /\ WF_vars(Progress)

\* C11 as claimed: once the aggregation has started (the JSONL file is open
\* and the directory listed), the shard directory is eventually deleted,
\* whatever its files hold, a partial file of an interrupted write included.
C11_UnconditionalCleanup == (pc_main = "merge") ~> (~save_dir.exists)

-----------------------------------------------------------------------------
(* Partial files *)

\* idx.json exists and its text is not a JSON document
Corrupt(dir, idx) == Exists(dir, idx) /\ ~JsonValid(dir.files[idx])

\* a worker is between open(save_path, 'w') and the end of json.dump of
\* idx.json
Writing(idx) ==
    \E d \in Devices :
        /\ wpc[d] = "dump"
        /\ idxs_on_device[d][wpos[d]] = idx

C12_State ==
    \A idx \in Files(pre_dir) :
        \/ /\ idx \notin inferred
           /\ idx \notin WrittenIdxs
           /\ Exists(save_dir, idx)
           /\ save_dir.files[idx] = pre_dir.files[idx]
           /\ pc_main # "done"
        \/ ~Corrupt(pre_dir, idx)

C12_Step ==
    /\ \A d \in Devices :
           (wpc[d] = "dump" /\ wpc'[d] = "crashed") =>
               Corrupt(save_dir', idxs_on_device[d][wpos[d]])
    /\ \A idx \in Files(save_dir) :
           \/ /\ Exists(save_dir', idx)
              /\ save_dir'.files[idx] = save_dir.files[idx]
           \/ Writing(idx)
           \/ ~Corrupt(save_dir, idx)

\* C12: a worker that ends between open and the end of json.dump leaves
\* idx.json on disk with a text that is not a JSON document; from then on
\* the file keeps that text: in a later run the resume check skips idx, so
\* idx is not passed to inference, the file is not opened again, and no run
\* gets to remove the directory.
C12_PartialCountsAsDone == [](C12_State) /\ [][C12_Step]_vars

\* the workers of a rerun have ended: they skipped the partial file that
\* the crash of the run before left, and generated another index
C12_Witness ==
    /\ run >= 2
    /\ pc_main = "agg"
    /\ \E idx \in Files(pre_dir) : Corrupt(pre_dir, idx) /\ Corrupt(save_dir, idx)
    /\ inferred # {}

-----------------------------------------------------------------------------
(* The aggregation over the directory it finds *)

\* the captions a file can hold
Captions == { OverallCC(r) : r \in InferReturns }

\* the shard directory as the aggregation can find it: the files of some of
\* the indices, each a document written by json.dump; the files of the
\* other indices did not reach the disk
FoundDirs(size) ==
    { [exists |-> TRUE,
       files |-> [i \in S |-> json_dumps(ResultRecord(i, cc[i]))]] :
         S \in SUBSET (0..(size - 1)), cc \in [0..(size - 1) -> Captions] }

\* local_mp has returned and line 124 is next; when no shard directory is
\* there, every worker ended before line 53
AggInit ==
    /\ n \in 0..MaxN
    /\ num_workers \in 1..MaxWorkers
    /\ save_dir \in {NoDir} \cup FoundDirs(n)
    /\ output_dir \in (IF save_dir.exists THEN {TRUE} ELSE BOOLEAN)
    /\ jsonl = [exists |-> FALSE, lines |-> <<>>]
    /\ pc_main = "agg"
    /\ pending = {}
    /\ wpc = [d \in Devices |-> IF save_dir.exists THEN "done" ELSE "crashed"]
    /\ idxs_on_device = [d \in Devices |->
            IF save_dir.exists THEN Shard(d, n, num_workers) ELSE <<>>]
    /\ wpos = [d \in Devices |-> Len(idxs_on_device[d]) + 1]
    /\ overall_cc = [d \in Devices |-> <<>>]
    /\ run = 1
    /\ crashes = IF save_dir.exists THEN 0 ELSE num_workers
    /\ pre_dir = save_dir
    /\ agg_dir = NoDir
    /\ inferred = {}
    /\ writes = {}
    /\ rewrites = {}
    /\ FilterIdle
    /\ TextIdle

AggNext ==
    \/ AggOpen /\ PipeOnly
    \/ AggRead /\ PipeOnly
    \/ AggRmtree /\ PipeOnly

SpecAgg == AggInit /\ [][AggNext]_vars

\* the index a line of the JSONL file is about
LineIndex(j) == GetItem(json_loads(jsonl.lines[j]).obj, "event_id").i

-----------------------------------------------------------------------------
(* A run without crashes *)

\* the steps of a run in which no worker crashes
NoCrashNext ==
    \/ \E d \in Devices : WorkerStart(d) /\ PipeOnly
    \/ \E d \in Devices : WorkerNext(d) /\ PipeOnly
    \/ \E d \in Devices : WorkerInferReturn(d) /\ PipeOnly
    \/ \E d \in Devices : WorkerOpen(d) /\ PipeOnly
    \/ \E d \in Devices : WorkerDump(d) /\ PipeOnly
    \/ LocalMpReturn /\ PipeOnly
    \/ AggOpen /\ PipeOnly
    \/ AggRead /\ PipeOnly
    \/ AggRmtree /\ PipeOnly

\* one run from a directory with the valid files of some of the indices, or
\* from no directory; every process that can take a step takes one in the end
SpecNoCrash == Init /\ [][NoCrashNext]_vars /\ WF_vars(NoCrashNext)

\* the run has ended with the directory removed and a JSONL file of n lines,
\* one per index: the text of the file found at the start for an index that
\* had one, a record generated in this run for the others
C14_Final ==
    /\ pc_main = "done"
    /\ ~save_dir.exists
    /\ jsonl.exists
    /\ Len(jsonl.lines) = n
    /\ { LineIndex(j) : j \in 1..Len(jsonl.lines) } = 0..(n - 1)
    /\ \A j \in 1..Len(jsonl.lines) :
           LET idx == LineIndex(j)
           IN  IF idx \in Files(pre_dir)
               THEN /\ jsonl.lines[j] = pre_dir.files[idx] \o <<NewLine>>
                    /\ idx \notin inferred
               ELSE /\ idx \in inferred
                    /\ \E cc \in Captions :
                           jsonl.lines[j] =
                               json_dumps(ResultRecord(idx, cc)) \o <<NewLine>>

\* C14: from a shard directory with any subset of valid per-example files,
\* with at least one worker and no crash, the run ends, and it ends with
\* the directory removed and a JSONL file of exactly n lines, one for every
\* index of 0..n-1, the records found at the start kept as they were and
\* the others generated.
C14_Completeness == <>[]C14_Final

\* a finished run over three indices that kept a record and generated one
C14_Witness ==
    /\ C14_Final
    /\ n >= 3
    /\ Files(pre_dir) # {}
    /\ inferred # {}

====
